---- MODULE Spec2Model ----
(***************************************************************************)
(* Model of src/server.go: a mock HTTP server that records GET and POST    *)
(* requests under a computed key and answers them with canned responses.   *)
(*                                                                         *)
(* The handler runs on Go's net/http server (httptest.NewServer).  The     *)
(* parts of net/http the handler relies on are modelled by what they do:   *)
(*   - a read of a nil map yields the zero value, a write to it panics;    *)
(*   - ResponseWriter.WriteHeader fixes the status and the headers that    *)
(*     are sent; later changes of the header map are not sent, and a       *)
(*     second WriteHeader is ignored;                                      *)
(*   - a response without Content-Type gets the sniffed type of its body;  *)
(*   - a handler that panics has its connection closed; what it wrote is   *)
(*     still buffered (under 2048 bytes) and is never sent.                *)
(***************************************************************************)
EXTENDS Integers, Sequences, FiniteSets, TLC

\* Number of inbound requests dispatched to the handler in one behaviour.
MaxReqs == 2

----------------------------------------------------------------------------
\* Inputs

\* Response bodies a test registers.
Bodies == {"{}", "[1]"}

\* Keys a test registers responses under. "/a?q b?" is the key of a GET
\* (path "/a?q b", empty query) and of a POST (path "/a", query "q",
\* file content "b?") alike.
RegKeys == {"/a?q b?", "/a?q"}

\* Keys a test registers POST responses under, and asks the accessors for
POSTRegKeys == {"/a?q b?"}

\* form: "none" (body is not multipart), "nofile" (multipart without a field
\* named "file"), "file" (multipart with field "file" holding `file`),
\* "unreadable" (field "file" is there, but reading it fails after the bytes
\* `file`: an I/O error on the temporary file net/http keeps a large part
\* in), "unopened" (field "file" is there, but opening its temporary file
\* fails: FormFile returns the error and, depending on the build, a nil
\* multipart.File or one that holds a nil *os.File).
Req(method, path, query, form, file) ==
    [method |-> method, path |-> path, query |-> query, form |-> form, file |-> file]

Shapes ==
    { Req("GET",  "/a",     "q", "none",   ""),
      Req("GET",  "/a?q b", "",  "none",   ""),
      Req("POST", "/a",     "q", "file",   "b?"),
      Req("POST", "/a",     "q", "file",   "x"),
      Req("POST", "/a",     "",  "nofile", ""),
      Req("POST", "/a",     "q", "none",   ""),
      Req("POST", "/a",     "q", "unreadable", "b?"),
      Req("POST", "/a",     "q", "unopened",   ""),
      Req("PUT",  "/a",     "",  "none",   "") }

\* The request as the handler receives it: its shape and its arrival number.
Inbound(shape, id) ==
    [id |-> id, method |-> shape.method, path |-> shape.path, query |-> shape.query,
     form |-> shape.form, file |-> shape.file]

NoReq == Inbound(Req("", "", "", "none", ""), 0)

----------------------------------------------------------------------------
\* Go maps: nil or a finite function.

NilMap == [isNil |-> TRUE, m |-> << >>]
EmptyMap == [isNil |-> FALSE, m |-> << >>]

MapHas(map, k) == k \in DOMAIN map.m

\* Mutant: the assignment makes a map that holds the assigned entry alone.
MapPut_Alone(map, k, v) == [isNil |-> FALSE, m |-> [x \in {k} |-> v]]

MapPut(map, k, v) ==
    [isNil |-> FALSE,
     m |-> [x \in (DOMAIN map.m) \cup {k} |-> IF x = k THEN v ELSE map.m[x]]]

\* s.httpXRequests[key]: the zero value (a nil slice) when the key is absent
\* or the map is nil.
SliceAt(map, k) == IF MapHas(map, k) THEN map.m[k] ELSE << >>

----------------------------------------------------------------------------
\* State

VARIABLES
    server,             \* s.server: "nil", or the state of the listener it points to
    leaked,             \* a listener that a later Open replaced is still serving
    url,                \* s.url: "nil" or the address of the listener
    httpGETRequests,    \* map[string][]http.Request
    httpGETResponses,   \* map[string]_Response
    httpPOSTRequests,   \* map[string][]http.Request
    httpPOSTResponses,  \* map[string]_Response
    nextId,             \* number of requests dispatched to the handler so far
    result,             \* what the caller of the last operation observed
    resets,             \* history: Reset has been called
    registered,         \* history: per method, key -> body of the calls to
                        \* Set*ResponseBody that returned since the last Reset
    handled,            \* history: the requests whose key the handler computed
                        \* since the last Reset, in arrival order
    running,            \* handler goroutines in flight: request id -> its position
    crashed,            \* the runtime ended the process: concurrent map writes
    overlap,            \* history: two handlers of one method were in flight together
    raced,              \* history: a handler was in flight while the last Reset ran
    stale,              \* history: ids of the requests the captured-requests maps
                        \* or a handler in flight held when the last Reset began
    resetting,          \* the test goroutine inside Reset: assignments done, 0 outside
    orphans,            \* captured-requests maps a Reset replaced that a handler
                        \* in flight has loaded
    multipartfiles      \* the build: "shared" when mime/multipart keeps the parts
                        \* of a form in one temporary file (Go 1.19.6, 1.20.1 and
                        \* later), "distinct" when each part has its own (older
                        \* toolchains, GODEBUG=multipartfiles=distinct)

maps == <<httpGETRequests, httpGETResponses, httpPOSTRequests, httpPOSTResponses>>
listener == <<server, leaked, url>>
history == <<resets, registered, handled>>
goroutines == <<running, crashed, overlap, raced, stale, resetting, orphans>>
vars == <<server, leaked, url, httpGETRequests, httpGETResponses, httpPOSTRequests,
          httpPOSTResponses, nextId, result, resets, registered, handled,
          running, crashed, overlap, raced, stale, resetting, orphans,
          multipartfiles>>

----------------------------------------------------------------------------
\* What a caller observes

\* op: the operation; kind: how it ended; key, prev: for Set*ResponseBody the
\* key and the body it replaced ("" when none), for Close the listener state
\* it found, for Reset whether it discarded entries; req, status, ctype, body: the request and the response read.
Outcome(op, kind, key, prev, req, status, ctype, body) ==
    [op |-> op, kind |-> kind, key |-> key, prev |-> prev,
     req |-> req, status |-> status, ctype |-> ctype, body |-> body]

\* A call of the consumer API returned (Open and Close: with a nil error).
Returned(op, key, prev) == Outcome(op, "returned", key, prev, NoReq, 0, "", "")
\* A call of the consumer API panicked in the caller's goroutine.
Panicked(op, key) == Outcome(op, "panic", key, "", NoReq, 0, "", "")
\* The handler panicked: the connection is closed and the client reads no response.
Aborted(r) == Outcome("request", "aborted", "", "", r, 0, "", "")

----------------------------------------------------------------------------
\* http.ResponseWriter

StatusOK == 200
StatusNotFound == 404
StatusInternalServerError == 500

\* calls: the number of WriteHeader calls made on the writer, the one a first
\* Write implies included
NewWriter ==
    [wroteHeader |-> FALSE, status |-> 0, header |-> << >>, sent |-> << >>, body |-> "",
     calls |-> 0]

\* w.Header().Set(name, value): the field holds this value alone
HeaderSet(w, name, value) ==
    [w EXCEPT !.header =
        [x \in (DOMAIN w.header) \cup {name} |->
            IF x = name THEN <<value>> ELSE w.header[x]]]

\* w.Header().Add(name, value): the value is appended to those the field holds
HeaderAdd(w, name, value) ==
    [w EXCEPT !.header =
        [x \in (DOMAIN w.header) \cup {name} |->
            IF x # name THEN w.header[x]
            ELSE IF name \in DOMAIN w.header THEN Append(w.header[name], value)
            ELSE <<value>>]]

\* w.WriteHeader(code): the first call fixes the status and the headers sent
WriteHeader(w, code) ==
    IF w.wroteHeader THEN [w EXCEPT !.calls = @ + 1]
    ELSE [w EXCEPT !.wroteHeader = TRUE, !.status = code, !.sent = w.header,
                   !.calls = @ + 1]

\* w.Write(bytes): an implicit WriteHeader(200) when none was written
Write(w, bytes) ==
    LET w1 == IF w.wroteHeader THEN w ELSE WriteHeader(w, StatusOK)
    IN [w1 EXCEPT !.body = w1.body \o bytes]

\* http.Error(w, msg, code)
HttpError(w, msg, code) ==
    LET w1 == HeaderSet(HeaderSet(w, "Content-Type", "text/plain; charset=utf-8"),
                        "X-Content-Type-Options", "nosniff")
    IN Write(WriteHeader(w1, code), msg \o "\n")

\* http.DetectContentType of the bodies written here (text without a markup
\* or binary signature)
DetectContentType(body) == "text/plain; charset=utf-8"

\* The response the client reads when the handler returns; ctype is what
\* Header.Get("Content-Type") gives it, the first value of the field
Response(r, w) ==
    LET w1 == IF w.wroteHeader THEN w ELSE WriteHeader(w, StatusOK)
        ctype == IF "Content-Type" \in DOMAIN w1.sent THEN w1.sent["Content-Type"][1]
                 ELSE IF w1.body # "" THEN DetectContentType(w1.body)
                 ELSE ""
    IN Outcome("request", "response", "", "", r, w1.status, ctype, w1.body)

----------------------------------------------------------------------------
\* Keys and canned responses

\* key := r.URL.Path + "?" + r.URL.RawQuery
GETKey(r) == r.path \o "?" \o r.query

\* Mutant: the POST key leaves the file content out.
POSTKey_NoBody(r, body) == r.path \o "?" \o r.query

\* key := r.URL.Path + "?" + r.URL.RawQuery + " " + string(body)
POSTKey(r, body) == r.path \o "?" \o r.query \o " " \o body

\* Mutant: a canned response is stored with status 201.
CannedResponse_Created(responseBody) == [StatusCode |-> 201, Body |-> responseBody]

\* _Response{StatusCode: http.StatusOK, Body: responseBody}
CannedResponse(responseBody) == [StatusCode |-> StatusOK, Body |-> responseBody]

\* Mutant: a key that has a response keeps it.
PutResponse_KeepFirst(responses, key, responseBody) ==
    IF MapHas(responses, key) THEN responses
    ELSE MapPut(responses, key, CannedResponse(responseBody))

\* responses[key] = _Response{...}, on a map that is not nil
PutResponse(responses, key, responseBody) ==
    MapPut(responses, key, CannedResponse(responseBody))

\* r.FormFile("file"): the file and the error. When the temporary file of
\* the part cannot be opened, FileHeader.Open returns what os.Open returned,
\* a multipart.File holding a nil *os.File, in a build with distinct files,
\* and a nil multipart.File in a build with a shared file.
FormFile(r) ==
    CASE r.form = "file"       -> [f |-> "file", err |-> ""]
      [] r.form = "unreadable" -> [f |-> "file", err |-> ""]
      [] r.form = "unopened"   -> [f |-> IF multipartfiles = "distinct"
                                         THEN "nil *os.File" ELSE "nil",
                                   err |-> "open multipart-file: no such file or directory"]
      [] r.form = "nofile"     -> [f |-> "nil", err |-> "http: no such file"]
      [] OTHER                 -> [f |-> "nil",
                                   err |-> "request Content-Type isn't multipart/form-data"]

\* ioutil.ReadAll(f): Read on a nil multipart.File panics, Read on a nil
\* *os.File returns os.ErrInvalid, a failing read returns the bytes read so
\* far and the error
ReadAll(r, f) ==
    CASE f = "nil"               -> [panic |-> TRUE,  body |-> "", err |-> ""]
      [] f = "nil *os.File"      -> [panic |-> FALSE, body |-> "", err |-> "invalid argument"]
      [] r.form = "unreadable"   -> [panic |-> FALSE, body |-> r.file,
                                     err |-> "read multipart-file: input/output error"]
      [] OTHER                   -> [panic |-> FALSE, body |-> r.file, err |-> ""]

\* The *r the handler appends: a copy of the request
Captured(r) == r

\* Mutant: the request replaces what was captured under the key.
AppendCaptured_Replace(requests, key, r) == MapPut(requests, key, <<Captured(r)>>)

\* requests[key] = append(requests[key], *r), on a map that is not nil
AppendCaptured(requests, key, r) ==
    MapPut(requests, key, Append(SliceAt(requests, key), Captured(r)))

----------------------------------------------------------------------------
\* The handler. Each operator yields what the handler leaves behind: whether
\* it panicked, the response writer, and the two captured-requests maps.

HandlerOut(panic, w, getReqs, postReqs) ==
    [panic |-> panic, w |-> w, getReqs |-> getReqs, postReqs |-> postReqs]

\* The found / not-found branches shared by both handlers' last lines
WriteCanned(w, responses, key, missing) ==
    IF ~MapHas(responses, key)
    THEN Write(WriteHeader(w, StatusNotFound), missing \o key \o "'")
    ELSE LET response == responses.m[key]
         IN Write(HeaderAdd(WriteHeader(w, response.StatusCode),
                            "Content-Type", "application/json"),
                  response.Body)

handleGetRequest(w, r) ==
    LET key == GETKey(r)
    IN IF httpGETRequests.isNil
       THEN \* assignment to entry in nil map
            HandlerOut(TRUE, w, httpGETRequests, httpPOSTRequests)
       ELSE HandlerOut(FALSE,
                       WriteCanned(w, httpGETResponses, key, "No httpGETResponse for '"),
                       AppendCaptured(httpGETRequests, key, r),
                       httpPOSTRequests)

\* handlePostRequest up to the line that computes the key: the writer after
\* the http.Error calls, neither followed by a return, and the body read
ReadFile(w, r) ==
    LET ff == FormFile(r)
        w1 == IF ff.err # "" THEN HttpError(w, ff.err, StatusInternalServerError) ELSE w
        rd == ReadAll(r, ff.f)
        w2 == IF ~rd.panic /\ rd.err # ""
              THEN HttpError(w1, rd.err, StatusInternalServerError) ELSE w1
    IN [panic |-> rd.panic, w |-> w2, body |-> rd.body]

handlePostRequest(w, r) ==
    LET rf == ReadFile(w, r)
    IN IF rf.panic
       THEN \* ioutil.ReadAll(f) calls Read on a nil multipart.File
            HandlerOut(TRUE, rf.w, httpGETRequests, httpPOSTRequests)
       ELSE LET key == POSTKey(r, rf.body)
            IN IF httpPOSTRequests.isNil
               THEN \* assignment to entry in nil map
                    HandlerOut(TRUE, rf.w, httpGETRequests, httpPOSTRequests)
               ELSE HandlerOut(FALSE,
                               WriteCanned(rf.w, httpPOSTResponses, key,
                                           "No httpPOSTResponse for '"),
                               httpGETRequests,
                               AppendCaptured(httpPOSTRequests, key, r))

\* Mutant: a method that is neither GET nor POST is handled as a GET.
Dispatch_DefaultAsGet(w, r) ==
    CASE r.method = "GET"  -> handleGetRequest(w, r)
      [] r.method = "POST" -> handlePostRequest(w, r)
      [] OTHER             -> handleGetRequest(w, r)

\* Mutant: the POST case calls the GET handler.
Dispatch_PostAsGet(w, r) ==
    CASE r.method = "GET"  -> handleGetRequest(w, r)
      [] r.method = "POST" -> handleGetRequest(w, r)
      [] OTHER             -> HandlerOut(FALSE, w, httpGETRequests, httpPOSTRequests)

Dispatch(w, r) ==
    CASE r.method = "GET"  -> handleGetRequest(w, r)
      [] r.method = "POST" -> handlePostRequest(w, r)
      [] OTHER             -> HandlerOut(FALSE, w, httpGETRequests, httpPOSTRequests)

\* Whether the handler reaches the line that computes the request's key
Keyed(r) ==
    r.method = "GET" \/ (r.method = "POST" /\ ~ReadAll(r, FormFile(r).f).panic)

\* The key the handler computes for a request that Keyed holds of
KeyOf(r) ==
    IF r.method = "GET" THEN GETKey(r)
    ELSE POSTKey(r, ReadAll(r, FormFile(r).f).body)

\* A listener created by Open is accepting connections
Serving == server = "open" \/ leaked

\* One inbound request, from its arrival to what the client reads
handleRequest(shape) ==
    /\ Serving
    /\ nextId < MaxReqs
    /\ LET r == Inbound(shape, nextId + 1)
           out == Dispatch(NewWriter, r)
       IN /\ httpGETRequests' = out.getReqs
          /\ httpPOSTRequests' = out.postReqs
          /\ result' = IF out.panic THEN Aborted(r) ELSE Response(r, out.w)
          /\ handled' = IF Keyed(r) THEN Append(handled, r) ELSE handled
    /\ nextId' = nextId + 1
    /\ UNCHANGED <<listener, httpGETResponses, httpPOSTResponses, resets, registered>>

----------------------------------------------------------------------------
\* The consumer API

\* Mutant: Open also makes the four maps anew.
Open_MakesMaps ==
    /\ leaked' = (leaked \/ server = "open")
    /\ server' = "open"
    /\ url' = "addr"
    /\ httpGETRequests' = EmptyMap
    /\ httpGETResponses' = EmptyMap
    /\ httpPOSTRequests' = EmptyMap
    /\ httpPOSTResponses' = EmptyMap
    /\ result' = Returned("Open", "", "")
    /\ UNCHANGED <<nextId, history>>

Open ==
    /\ leaked' = (leaked \/ server = "open")
    /\ server' = "open"
    /\ url' = "addr"
    /\ result' = Returned("Open", "", "")
    /\ UNCHANGED <<maps, nextId, history>>

\* Mutant: Close without the nil check calls Close on a nil *httptest.Server.
Close_NoNilCheck ==
    /\ server' = IF server = "nil" THEN "nil" ELSE "closed"
    /\ result' = IF server = "nil" THEN Panicked("Close", "") ELSE Returned("Close", "", server)
    /\ UNCHANGED <<leaked, url, maps, nextId, history>>

Close ==
    /\ server' = IF server = "nil" THEN "nil" ELSE "closed"
    /\ result' = Returned("Close", "", server)
    /\ UNCHANGED <<leaked, url, maps, nextId, history>>

\* History: "entries" when the maps a Reset replaces hold a registered
\* response and a captured request.
Discarded ==
    IF /\ (DOMAIN httpGETResponses.m) \cup (DOMAIN httpPOSTResponses.m) # {}
       /\ (DOMAIN httpGETRequests.m) \cup (DOMAIN httpPOSTRequests.m) # {}
    THEN "entries" ELSE ""

\* Mutant: Reset makes the captured-requests maps only when they are nil.
Reset_KeepsCaptured ==
    /\ httpGETResponses' = EmptyMap
    /\ httpPOSTResponses' = EmptyMap
    /\ httpGETRequests' = IF httpGETRequests.isNil THEN EmptyMap ELSE httpGETRequests
    /\ httpPOSTRequests' = IF httpPOSTRequests.isNil THEN EmptyMap ELSE httpPOSTRequests
    /\ result' = Returned("Reset", "", Discarded)
    /\ resets' = TRUE
    /\ registered' = [GET |-> << >>, POST |-> << >>]
    /\ handled' = << >>
    /\ UNCHANGED <<listener, nextId>>

Reset ==
    /\ httpGETResponses' = EmptyMap
    /\ httpPOSTResponses' = EmptyMap
    /\ httpGETRequests' = EmptyMap
    /\ httpPOSTRequests' = EmptyMap
    /\ result' = Returned("Reset", "", Discarded)
    /\ resets' = TRUE
    /\ registered' = [GET |-> << >>, POST |-> << >>]
    /\ handled' = << >>
    /\ UNCHANGED <<listener, nextId>>

\* The body of the entry an assignment to responses[key] replaces
Replaced(responses, key) == IF MapHas(responses, key) THEN responses.m[key].Body ELSE ""

Note(reg, key, body) ==
    [x \in (DOMAIN reg) \cup {key} |-> IF x = key THEN body ELSE reg[x]]

SetGETResponseBody(key, responseBody) ==
    IF httpGETResponses.isNil
    THEN \* assignment to entry in nil map
         /\ result' = Panicked("SetGETResponseBody", key)
         /\ UNCHANGED <<listener, maps, nextId, history>>
    ELSE /\ httpGETResponses' = PutResponse(httpGETResponses, key, responseBody)
         /\ result' = Returned("SetGETResponseBody", key, Replaced(httpGETResponses, key))
         /\ registered' = [registered EXCEPT !.GET = Note(@, key, responseBody)]
         /\ UNCHANGED <<listener, httpGETRequests, httpPOSTRequests, httpPOSTResponses,
                        nextId, resets, handled>>

SetPOSTResponseBody(key, responseBody) ==
    IF httpPOSTResponses.isNil
    THEN \* assignment to entry in nil map
         /\ result' = Panicked("SetPOSTResponseBody", key)
         /\ UNCHANGED <<listener, maps, nextId, history>>
    ELSE /\ httpPOSTResponses' = PutResponse(httpPOSTResponses, key, responseBody)
         /\ result' = Returned("SetPOSTResponseBody", key, Replaced(httpPOSTResponses, key))
         /\ registered' = [registered EXCEPT !.POST = Note(@, key, responseBody)]
         /\ UNCHANGED <<listener, httpGETRequests, httpGETResponses, httpPOSTRequests,
                        nextId, resets, handled>>

\* Mutant: GetGETRequests reads the POST map.
GetGETRequests_FromPOST(key) == SliceAt(httpPOSTRequests, key)

\* return s.httpGETRequests[key]
GetGETRequests(key) == SliceAt(httpGETRequests, key)

\* return s.httpPOSTRequests[key]
GetPOSTRequests(key) == SliceAt(httpPOSTRequests, key)

\* A caller reads GetGETRequests(key); the slice returned is GetGETRequests(key)
CallGetGETRequests(key) ==
    /\ result' = Returned("GetGETRequests", key, "")
    /\ UNCHANGED <<listener, maps, nextId, history>>

\* A caller reads GetPOSTRequests(key)
CallGetPOSTRequests(key) ==
    /\ result' = Returned("GetPOSTRequests", key, "")
    /\ UNCHANGED <<listener, maps, nextId, history>>

\* return *s.url: a nil pointer dereference before the first Open
URL ==
    /\ result' = IF url = "nil" THEN Panicked("URL", "") ELSE Returned("URL", "", url)
    /\ UNCHANGED <<listener, maps, nextId, history>>

----------------------------------------------------------------------------
\* New() returns &_Server{}: every field is its zero value

Init ==
    /\ server = "nil"
    /\ leaked = FALSE
    /\ url = "nil"
    /\ httpGETRequests = NilMap
    /\ httpGETResponses = NilMap
    /\ httpPOSTRequests = NilMap
    /\ httpPOSTResponses = NilMap
    /\ nextId = 0
    /\ result = Returned("New", "", "")
    /\ resets = FALSE
    /\ registered = [GET |-> << >>, POST |-> << >>]
    /\ handled = << >>
    /\ running = << >>
    /\ crashed = FALSE
    /\ overlap = FALSE
    /\ raced = FALSE
    /\ stale = {}
    /\ resetting = 0
    /\ orphans = << >>
    /\ multipartfiles \in {"shared", "distinct"}

\* One goroutine: every call and every request runs to its end before the
\* next one starts
Next ==
    \/ Open /\ UNCHANGED <<goroutines, multipartfiles>>
    \/ Close /\ UNCHANGED <<goroutines, multipartfiles>>
    \/ Reset /\ UNCHANGED <<goroutines, multipartfiles>>
    \/ \E key \in RegKeys, body \in Bodies :
          SetGETResponseBody(key, body) /\ UNCHANGED <<goroutines, multipartfiles>>
    \/ \E key \in POSTRegKeys, body \in Bodies :
          SetPOSTResponseBody(key, body) /\ UNCHANGED <<goroutines, multipartfiles>>
    \/ \E shape \in Shapes : handleRequest(shape) /\ UNCHANGED <<goroutines, multipartfiles>>
    \/ \E key \in POSTRegKeys : CallGetGETRequests(key) /\ UNCHANGED <<goroutines, multipartfiles>>
    \/ \E key \in POSTRegKeys : CallGetPOSTRequests(key) /\ UNCHANGED <<goroutines, multipartfiles>>
    \/ URL /\ UNCHANGED <<goroutines, multipartfiles>>

Spec == Init /\ [][Next]_vars

----------------------------------------------------------------------------
\* Handlers as goroutines. net/http runs the handler of every connection in
\* a goroutine of its own and the code takes no lock, so the statement
\*     s.httpXRequests[key] = append(s.httpXRequests[key], *r)
\* of two requests, or of a request and a Reset, can interleave: the load of
\* the map from the field, the read of the slice, the write of the entry
\* and the lookup of the response are steps of their own, and so are the
\* four assignments of Reset.

RequestsMap(method) == IF method = "GET" THEN httpGETRequests ELSE httpPOSTRequests

ResponsesMap(method) == IF method = "GET" THEN httpGETResponses ELSE httpPOSTResponses

\* The requests the concurrent clients send: the GETs, under two keys, and
\* a POST whose file is read
Concurrent ==
    { shape \in Shapes :
        \/ shape.method = "GET"
        \/ shape.method = "POST" /\ shape.form = "file" /\ shape.file = "x" }

\* A handler in flight. pc: "key" before the load of the map, "loaded"
\* between the load and the read of the slice, "read" between the read and
\* the write, "stored" after the write; ref: the map loaded, 0 for the one
\* the field holds now, i for orphans[i]; old: the slice read.
Goroutine(r, pc, ref, old) == [req |-> r, pc |-> pc, ref |-> ref, old |-> old]

Without(h) == [x \in DOMAIN running \ {h} |-> running[x]]

\* The map a handler has loaded
Loaded(g) == IF g.ref = 0 THEN RequestsMap(g.req.method) ELSE orphans[g.ref]

\* Maps no handler refers to are garbage: the orphans that `run` refers
\* to, in their order
Referred(run) == { run[h].ref : h \in DOMAIN run } \ {0}

Rank(run, i) == Cardinality({ j \in Referred(run) : j <= i })

KeptOrphans(run, orph) ==
    [n \in 1..Cardinality(Referred(run)) |->
        orph[CHOOSE i \in Referred(run) : Rank(run, i) = n]]

Renumbered(run) ==
    [h \in DOMAIN run |->
        IF run[h].ref = 0 THEN run[h] ELSE [run[h] EXCEPT !.ref = Rank(run, @)]]

\* Mutant: the slice written holds the request alone.
Appended_Alone(old, r) == <<Captured(r)>>

\* append(s.httpXRequests[key], *r), the slice read before
Appended(old, r) == Append(old, Captured(r))

\* The server accepts a connection and starts its handler
Arrive(shape) ==
    /\ ~crashed
    /\ Serving
    /\ nextId < MaxReqs
    /\ LET r == Inbound(shape, nextId + 1)
       IN /\ running' = [x \in DOMAIN running \cup {r.id} |->
                            IF x = r.id THEN Goroutine(r, "key", 0, << >>)
                            ELSE running[x]]
          /\ overlap' = (overlap \/ \E x \in DOMAIN running :
                                        running[x].req.method = r.method)
          /\ handled' = Append(handled, r)
    /\ raced' = (raced \/ resetting # 0)
    /\ nextId' = nextId + 1
    /\ UNCHANGED <<listener, maps, result, resets, registered, crashed, stale,
                   resetting, orphans>>

\* s.httpXRequests is loaded from the field
LoadCaptured(h) ==
    /\ ~crashed
    /\ h \in DOMAIN running
    /\ running[h].pc = "key"
    /\ running' = [running EXCEPT ![h] = Goroutine(running[h].req, "loaded", 0, << >>)]
    /\ UNCHANGED <<listener, maps, nextId, result, history, crashed, overlap, raced,
                   stale, resetting, orphans>>

\* The right-hand side: the slice under the key is read from the map loaded
\* (a nil map reads as a nil slice)
ReadCaptured(h) ==
    /\ ~crashed
    /\ h \in DOMAIN running
    /\ running[h].pc = "loaded"
    /\ LET g == running[h]
       IN running' = [running EXCEPT ![h] =
              Goroutine(g.req, "read", g.ref, SliceAt(Loaded(g), KeyOf(g.req)))]
    /\ UNCHANGED <<listener, maps, nextId, result, history, crashed, overlap, raced,
                   stale, resetting, orphans>>

\* The assignment: the entry is written in the map loaded before, or in the
\* map s.httpXRequests holds now. The statement names the field twice and
\* Go does not order the two loads against a write of another goroutine, so
\* after a Reset in between either map can be the one written. A write to
\* a nil map panics.
WriteCaptured(h) ==
    /\ ~crashed
    /\ h \in DOMAIN running
    /\ running[h].pc = "read"
    /\ \E reloaded \in BOOLEAN :
         LET g == running[h]
             r == g.req
             ref == IF reloaded THEN 0 ELSE g.ref
             target == IF ref = 0 THEN RequestsMap(r.method) ELSE orphans[ref]
             written == MapPut(target, KeyOf(r), Appended(g.old, r))
             left == IF target.isNil THEN Without(h)
                     ELSE [running EXCEPT ![h] = Goroutine(r, "stored", 0, << >>)]
             orph == IF target.isNil \/ ref = 0 THEN orphans
                     ELSE [orphans EXCEPT ![ref] = written]
         IN /\ running' = Renumbered(left)
            /\ orphans' = KeptOrphans(left, orph)
            /\ result' = IF target.isNil THEN Aborted(r) ELSE result
            /\ httpGETRequests' = IF ~target.isNil /\ ref = 0 /\ r.method = "GET"
                                  THEN written ELSE httpGETRequests
            /\ httpPOSTRequests' = IF ~target.isNil /\ ref = 0 /\ r.method = "POST"
                                   THEN written ELSE httpPOSTRequests
    /\ UNCHANGED <<listener, httpGETResponses, httpPOSTResponses, nextId, history,
                   crashed, overlap, raced, stale, resetting>>

\* The lookup of the response and the writes to w; the handler returns
Respond(h) ==
    /\ ~crashed
    /\ h \in DOMAIN running
    /\ running[h].pc = "stored"
    /\ LET r == running[h].req
           w0 == IF r.method = "GET" THEN NewWriter ELSE ReadFile(NewWriter, r).w
           w == WriteCanned(w0, ResponsesMap(r.method), KeyOf(r),
                            "No http" \o r.method \o "Response for '")
       IN result' = Response(r, w)
    /\ running' = Without(h)
    /\ UNCHANGED <<listener, maps, nextId, history, crashed, overlap, raced, stale,
                   resetting, orphans>>

\* fatal error: concurrent map writes (or: concurrent map read and map
\* write). The runtime may detect two goroutines in the append statement on
\* one map, one of them about to write, and ends the process.
Fatal ==
    /\ ~crashed
    /\ \E h1, h2 \in DOMAIN running :
          /\ h1 # h2
          /\ running[h1].req.method = running[h2].req.method
          /\ running[h1].ref = running[h2].ref
          /\ running[h1].pc = "read"
          /\ running[h2].pc \in {"loaded", "read"}
    /\ crashed' = TRUE
    /\ UNCHANGED <<listener, maps, nextId, result, history, running, overlap, raced,
                   stale, resetting, orphans>>

IdsOf(slice) == { slice[i].id : i \in DOMAIN slice }

\* The ids of the requests in the lists of a map
CapturedIds(map) == UNION { IdsOf(map.m[k]) : k \in DOMAIN map.m }

\* The ids of the requests that the captured-requests maps, a map a handler
\* in flight has loaded, or the slice it has read, hold
Held ==
    CapturedIds(httpGETRequests) \cup CapturedIds(httpPOSTRequests)
        \cup UNION { CapturedIds(orphans[i]) : i \in DOMAIN orphans }
        \cup UNION { IdsOf(running[h].old) : h \in DOMAIN running }

\* The handlers that have loaded the map the field of this method holds
Holders(method) ==
    { h \in DOMAIN running :
        /\ running[h].req.method = method
        /\ running[h].pc \in {"loaded", "read"}
        /\ running[h].ref = 0 }

\* The handlers in flight after the field of this method is assigned: the
\* map it held stays with the handlers that have loaded it
Orphaned(method) ==
    [h \in DOMAIN running |->
        IF h \in Holders(method)
        THEN [running[h] EXCEPT !.ref = Len(orphans) + 1] ELSE running[h]]

\* Reset, line 101: s.httpGETResponses = map[string]_Response{}
ResetGETResponses ==
    /\ ~crashed
    /\ resetting = 0
    /\ httpGETResponses' = EmptyMap
    /\ resetting' = 1
    /\ raced' = (DOMAIN running # {})
    /\ overlap' = (overlap /\ DOMAIN running # {})
    /\ stale' = (IF DOMAIN running = {} THEN {} ELSE stale) \cup Held
    /\ UNCHANGED <<listener, httpGETRequests, httpPOSTRequests, httpPOSTResponses,
                   nextId, result, history, running, crashed, orphans>>

\* Reset, line 102: s.httpPOSTResponses = map[string]_Response{}
ResetPOSTResponses ==
    /\ ~crashed
    /\ resetting = 1
    /\ httpPOSTResponses' = EmptyMap
    /\ resetting' = 2
    /\ UNCHANGED <<listener, httpGETRequests, httpPOSTRequests, httpGETResponses,
                   nextId, result, history, running, crashed, overlap, raced, stale,
                   orphans>>

\* Mutant: line 104 makes the map only when the field is nil.
ResetGETRequests_KeepsCaptured ==
    /\ ~crashed
    /\ resetting = 2
    /\ httpGETRequests' = IF httpGETRequests.isNil THEN EmptyMap ELSE httpGETRequests
    /\ resetting' = 3
    /\ UNCHANGED <<listener, httpGETResponses, httpPOSTRequests, httpPOSTResponses,
                   nextId, result, history, running, crashed, overlap, raced, stale,
                   orphans>>

\* Reset, line 104: s.httpGETRequests = map[string][]http.Request{}
ResetGETRequests ==
    /\ ~crashed
    /\ resetting = 2
    /\ httpGETRequests' = EmptyMap
    /\ resetting' = 3
    /\ running' = Orphaned("GET")
    /\ orphans' = IF Holders("GET") = {} THEN orphans
                  ELSE Append(orphans, httpGETRequests)
    /\ UNCHANGED <<listener, httpGETResponses, httpPOSTRequests, httpPOSTResponses,
                   nextId, result, history, crashed, overlap, raced, stale>>

\* Reset, line 105: s.httpPOSTRequests = map[string][]http.Request{}, and
\* the return
ResetPOSTRequests ==
    /\ ~crashed
    /\ resetting = 3
    /\ httpPOSTRequests' = EmptyMap
    /\ resetting' = 0
    /\ running' = Orphaned("POST")
    /\ orphans' = IF Holders("POST") = {} THEN orphans
                  ELSE Append(orphans, httpPOSTRequests)
    /\ result' = Returned("Reset", "", "")
    /\ resets' = TRUE
    /\ registered' = [GET |-> << >>, POST |-> << >>]
    /\ handled' = << >>
    /\ UNCHANGED <<listener, httpGETResponses, httpPOSTResponses, httpGETRequests,
                   nextId, crashed, overlap, raced, stale>>

\* The test opens the server and calls Reset while clients send requests
NextConcurrent ==
    \/ ~crashed /\ resetting = 0 /\ Open /\ UNCHANGED <<goroutines, multipartfiles>>
    \/ ResetGETResponses /\ UNCHANGED multipartfiles
    \/ ResetPOSTResponses /\ UNCHANGED multipartfiles
    \/ ResetGETRequests /\ UNCHANGED multipartfiles
    \/ ResetPOSTRequests /\ UNCHANGED multipartfiles
    \/ \E shape \in Concurrent : Arrive(shape) /\ UNCHANGED multipartfiles
    \/ \E h \in 1..MaxReqs : LoadCaptured(h) /\ UNCHANGED multipartfiles
    \/ \E h \in 1..MaxReqs : ReadCaptured(h) /\ UNCHANGED multipartfiles
    \/ \E h \in 1..MaxReqs : WriteCaptured(h) /\ UNCHANGED multipartfiles
    \/ \E h \in 1..MaxReqs : Respond(h) /\ UNCHANGED multipartfiles
    \/ Fatal /\ UNCHANGED multipartfiles

\* The concurrent clients send no request whose handler opens a temporary
\* file, so the two builds behave alike here and one of them is followed
InitConcurrent == Init /\ multipartfiles = "shared"

SpecConcurrent == InitConcurrent /\ [][NextConcurrent]_vars

----------------------------------------------------------------------------
\* Claims

\* Every key a test registers or a request of Shapes computes, and one more
AllKeys ==
    RegKeys \cup { GETKey(shape) : shape \in { x \in Shapes : x.method = "GET" } }
            \cup { POSTKey(shape, shape.file) : shape \in { x \in Shapes : x.method = "POST" } }
            \cup {"/never?"}

\* The last operation was an inbound request with this method
Handled(method) == result.op = "request" /\ result.req.method = method

\* The requests of `handled` with this method and key, in arrival order
HandledUnder(method, k) ==
    SelectSeq(handled, LAMBDA r : r.method = method /\ KeyOf(r) = k)

\* C1: a GET whose path + "?" + raw query is a key registered by
\* SetGETResponseBody(k, b) since the last Reset (b the last body registered)
\* is answered 200, Content-Type: application/json, body b.
C1_GetAnsweredAsRegistered ==
    \A k \in DOMAIN registered.GET :
        (Handled("GET") /\ result.req.path \o "?" \o result.req.query = k)
        => /\ result.kind = "response"
           /\ result.status = 200
           /\ result.ctype = "application/json"
           /\ result.body = registered.GET[k]

\* C2: a GET (a POST) whose computed key has no entry in the GET-responses
\* (POST-responses) mapping is answered 404 with body
\* "No httpGETResponse for '<key>'" ("No httpPOSTResponse for '<key>'").
C2_MissAnswered404 ==
    /\ (Handled("GET") /\ ~MapHas(httpGETResponses, KeyOf(result.req)))
       => /\ result.kind = "response"
          /\ result.status = 404
          /\ result.body = "No httpGETResponse for '" \o KeyOf(result.req) \o "'"
    /\ (Handled("POST") /\ Keyed(result.req) /\ ~MapHas(httpPOSTResponses, KeyOf(result.req)))
       => /\ result.kind = "response"
          /\ result.status = 404
          /\ result.body = "No httpPOSTResponse for '" \o KeyOf(result.req) \o "'"

\* C7: a POST whose body is not a multipart form or has no field "file" is
\* answered 500 with the extraction error's text, and that is what the client
\* reads.
C7_BadPostAnswered500 ==
    (Handled("POST") /\ result.req.form \in {"none", "nofile"})
    => /\ result.kind = "response"
       /\ result.status = 500
       /\ result.body \in { FormFile(result.req).err, FormFile(result.req).err \o "\n" }

\* C3: once Reset has been called, GetGETRequests(k) (GetPOSTRequests(k)) is
\* exactly the list of the GET (POST) requests with key k handled since the
\* last Reset, in arrival order.
C3_CapturedInArrivalOrder ==
    resets => \A k \in AllKeys :
        /\ GetGETRequests(k) = HandledUnder("GET", k)
        /\ GetPOSTRequests(k) = HandledUnder("POST", k)

\* Two requests were captured under one key, and nothing else under it.
C3_Witness ==
    \E k \in AllKeys :
        /\ Len(GetGETRequests(k)) = 2
        /\ GetGETRequests(k)[1].id < GetGETRequests(k)[2].id
        /\ Len(handled) = 2

\* The mappings hold no entry and no captured request
AllEmpty ==
    /\ DOMAIN httpGETResponses.m = {}
    /\ DOMAIN httpPOSTResponses.m = {}
    /\ DOMAIN httpGETRequests.m = {}
    /\ DOMAIN httpPOSTRequests.m = {}
    /\ \A k \in AllKeys : GetGETRequests(k) = << >> /\ GetPOSTRequests(k) = << >>

\* C4: when Reset returns all four mappings are empty, and the GET, or the
\* POST with a file that is read, that follows it, whatever was registered
\* under its key before, is answered 404.
C4_ResetEmptiesAll ==
    /\ [](result.op = "Reset" => AllEmpty)
    /\ [][(/\ result.op = "Reset"
           /\ result'.op = "request"
           /\ \/ result'.req.method = "GET"
              \/ result'.req.method = "POST" /\ result'.req.form = "file")
          => (result'.kind = "response" /\ result'.status = 404)]_vars

\* Reset has just discarded a registered response and a captured request.
C4_Witness ==
    /\ result.op = "Reset"
    /\ result.prev = "entries"
    /\ AllEmpty

\* C5: GetGETRequests(k) and GetPOSTRequests(k) are the empty sequence for
\* every key k under which no request of that method was captured since the
\* last Reset, and before the first Reset.
C5_EmptyWhenNotCaptured ==
    \A k \in AllKeys :
        /\ (~resets \/ HandledUnder("GET", k) = << >>) => GetGETRequests(k) = << >>
        /\ (~resets \/ HandledUnder("POST", k) = << >>) => GetPOSTRequests(k) = << >>

\* A POST is captured under a key under which no GET is, and a response is
\* registered for GETs under that key.
C5_Witness ==
    \E k \in DOMAIN registered.GET :
        /\ GetPOSTRequests(k) # << >>
        /\ GetGETRequests(k) = << >>

\* C6: a POST with path p, raw query q and file content c is matched against
\* the key p + "?" + q + " " + c and recorded under it alone: with a response
\* registered under that key it is answered 200 with the registered body;
\* when the only registrations for p and q are under another file content it
\* is answered 404.
C6_FileContentInKey ==
    (Handled("POST") /\ result.req.form = "file" /\ resets)
    => LET r == result.req
           k == r.path \o "?" \o r.query \o " " \o r.file
       IN /\ (k \in DOMAIN registered.POST)
             => /\ result.kind = "response"
                /\ result.status = 200
                /\ result.body = registered.POST[k]
          /\ (k \notin DOMAIN registered.POST)
             => /\ result.kind = "response"
                /\ result.status = 404
                /\ result.body = "No httpPOSTResponse for '" \o k \o "'"
          /\ \A k2 \in AllKeys \cup {k} :
                (\E i \in DOMAIN GetPOSTRequests(k2) : GetPOSTRequests(k2)[i] = r)
                <=> k2 = k

\* A response is registered for POSTs to "/a?q" with file content "b?"; a
\* POST to "/a?q" with file content "x" was answered 404 and recorded under
\* its key.
C6_Witness ==
    /\ "/a?q b?" \in DOMAIN registered.POST
    /\ Handled("POST")
    /\ result.req.path = "/a" /\ result.req.query = "q" /\ result.req.file = "x"
    /\ result.status = 404
    /\ GetPOSTRequests("/a?q x") # << >>
    /\ GetPOSTRequests("/a?q b?") = << >>

\* C8: each response mapping holds, for every key registered since the last
\* Reset, the body of the last registration, and a GET (POST) with that key
\* is answered with that body.
C8_LastRegistrationWins ==
    /\ \A k \in DOMAIN registered.GET :
          /\ MapHas(httpGETResponses, k)
          /\ httpGETResponses.m[k].Body = registered.GET[k]
          /\ (Handled("GET") /\ result.req.path \o "?" \o result.req.query = k)
             => (result.kind = "response" /\ result.body = registered.GET[k])
    /\ \A k \in DOMAIN registered.POST :
          /\ MapHas(httpPOSTResponses, k)
          /\ httpPOSTResponses.m[k].Body = registered.POST[k]
          /\ (Handled("POST") /\ result.req.form = "file"
              /\ result.req.path \o "?" \o result.req.query \o " " \o result.req.file = k)
             => (result.kind = "response" /\ result.body = registered.POST[k])

\* SetGETResponseBody has just replaced the body registered under a key by
\* another one.
C8_Witness ==
    /\ result.op = "SetGETResponseBody"
    /\ result.prev # ""
    /\ httpGETResponses.m[result.key].Body # result.prev
    /\ registered.GET[result.key] = httpGETResponses.m[result.key].Body

\* What the client of this request would read if it were handled now
Answer(shape) ==
    LET r == Inbound(shape, 0)
        out == Dispatch(NewWriter, r)
    IN IF out.panic THEN Aborted(r) ELSE Response(r, out.w)

\* The answer to a request of this shape that the registrations of its own
\* method since the last Reset call for
Expected(shape) ==
    LET k == IF shape.method = "GET" THEN shape.path \o "?" \o shape.query
             ELSE shape.path \o "?" \o shape.query \o " " \o shape.file
        reg == registered[shape.method]
    IN IF k \in DOMAIN reg
       THEN [status |-> 200, body |-> reg[k]]
       ELSE [status |-> 404, body |-> "No http" \o shape.method \o "Response for '" \o k \o "'"]

\* C9: SetGETResponseBody leaves the POST mappings as they are and
\* SetPOSTResponseBody the GET mappings; the answer to a GET is decided by the
\* GET registrations alone and the answer to a POST by the POST registrations
\* alone, also for a key registered for the other method; GetGETRequests
\* holds GET requests only and GetPOSTRequests POST requests only.
C9_KeyspacesIndependent ==
    /\ [](\A k \in AllKeys :
            /\ \A i \in DOMAIN GetGETRequests(k) : GetGETRequests(k)[i].method = "GET"
            /\ \A i \in DOMAIN GetPOSTRequests(k) : GetPOSTRequests(k)[i].method = "POST")
    /\ [](resets => \A shape \in Shapes :
            (shape.method = "GET" \/ (shape.method = "POST" /\ shape.form = "file"))
            => /\ Answer(shape).kind = "response"
               /\ Answer(shape).status = Expected(shape).status
               /\ Answer(shape).body = Expected(shape).body)
    /\ [][/\ (result'.op = "SetGETResponseBody")
             => UNCHANGED <<httpPOSTResponses, httpPOSTRequests, httpGETRequests>>
          /\ (result'.op = "SetPOSTResponseBody")
             => UNCHANGED <<httpGETResponses, httpGETRequests, httpPOSTRequests>>
         ]_vars

\* A response is registered for GETs under a key and none for POSTs under
\* the same text; a POST with that key was answered 404 and is absent from
\* GetGETRequests.
C9_Witness ==
    \E k \in DOMAIN registered.GET :
        /\ k \notin DOMAIN registered.POST
        /\ Handled("POST") /\ Keyed(result.req) /\ KeyOf(result.req) = k
        /\ result.status = 404
        /\ GetGETRequests(k) = << >>
        /\ GetPOSTRequests(k) # << >>

\* C10: Close can be called in every state, returns (a nil error) without
\* panicking, and leaves the listener of the server not open.
C10_CloseIdempotent ==
    /\ ENABLED Close
    /\ result.op = "Close"
       => /\ result.kind = "returned"
          /\ server # "open"
          /\ (~leaked => ~Serving)

\* Close was called on a server that was already closed.
C10_Witness ==
    /\ result.op = "Close"
    /\ result.prev = "closed"
    /\ server = "closed"

\* C11: Open and Close leave the four mappings as they are, so what was
\* registered and captured before a Close and a following Open is still there
\* afterwards; Reset leaves the listener, open or closed, and its address as
\* they are.
C11_LifecycleAndDataApart ==
    [][/\ (result'.op \in {"Open", "Close"}) => UNCHANGED maps
       /\ (result'.op = "Reset") => UNCHANGED listener
      ]_vars

\* The server was opened again after a Close and still holds the response
\* registered and the request captured before the Close.
C11_Witness ==
    /\ result.op = "Open"
    /\ ~leaked
    /\ handled # << >>
    /\ \E k \in DOMAIN registered.GET : MapHas(httpGETResponses, k)
    /\ \E k \in AllKeys : GetGETRequests(k) # << >>

\* C12: a server on which Reset was never called behaves as one whose four
\* mappings are empty: SetGETResponseBody and SetPOSTResponseBody return and
\* the response is registered; an inbound GET is recorded and answered, 404
\* when nothing is registered under its key.
C12_FreshServerUsable ==
    ~resets =>
        /\ (result.op = "SetGETResponseBody")
           => /\ result.kind = "returned"
              /\ MapHas(httpGETResponses, result.key)
        /\ (result.op = "SetPOSTResponseBody")
           => /\ result.kind = "returned"
              /\ MapHas(httpPOSTResponses, result.key)
        /\ Handled("GET")
           => /\ result.kind = "response"
              /\ GetGETRequests(KeyOf(result.req)) # << >>
              /\ ~MapHas(httpGETResponses, KeyOf(result.req)) => result.status = 404

\* C13: recording precedes lookup: every handled GET, and every handled POST
\* whose key is computed, is the last request of the list its accessor
\* returns for its key, whether or not a response is registered for the key;
\* a request answered 404 is in that list.
C13_RecordedBeforeLookup ==
    /\ Handled("GET")
       => LET l == GetGETRequests(KeyOf(result.req))
          IN l # << >> /\ l[Len(l)] = result.req
    /\ (Handled("POST") /\ Keyed(result.req))
       => LET l == GetPOSTRequests(KeyOf(result.req))
          IN l # << >> /\ l[Len(l)] = result.req

\* C15: a request whose method is neither GET nor POST gets no handling: the
\* handler writes no status, no header and no body, and the four mappings
\* are left as they are.
C15_OtherMethodsUntouched ==
    /\ [](\A shape \in Shapes :
            shape.method \notin {"GET", "POST"}
            => Dispatch(NewWriter, Inbound(shape, 0))
                 = HandlerOut(FALSE, NewWriter, httpGETRequests, httpPOSTRequests))
    /\ [][(result'.op = "request" /\ result'.req.method \notin {"GET", "POST"})
          => /\ UNCHANGED maps
             /\ result'.kind = "response"
             /\ result'.ctype = ""
             /\ result'.body = ""
         ]_vars

\* A PUT was handled by a server that holds a registered response and a
\* captured request.
C15_Witness ==
    /\ result.op = "request"
    /\ result.req.method = "PUT"
    /\ result.kind = "response"
    /\ result.body = ""
    /\ handled # << >>
    /\ registered.GET # << >>

\* The response writer the handler leaves behind for a request of this shape
\* handled now
Written(shape) == Dispatch(NewWriter, Inbound(shape, 0)).w

\* C16: every entry of the GET-responses and POST-responses mappings has
\* status 200, and every status the handler writes, and every status a client
\* reads, is 200, 404 or 500.
C16_StatusesWritten ==
    /\ \A k \in DOMAIN httpGETResponses.m : httpGETResponses.m[k].StatusCode = 200
    /\ \A k \in DOMAIN httpPOSTResponses.m : httpPOSTResponses.m[k].StatusCode = 200
    /\ \A shape \in Shapes :
          LET w == Written(shape)
          IN w.wroteHeader => w.status \in {200, 404, 500}
    /\ (result.op = "request" /\ result.kind = "response")
       => result.status \in {200, 404, 500}

\* Both response mappings hold an entry, a GET has just been answered with
\* the status of its entry, and a POST without a file would be answered 500.
C16_Witness ==
    /\ DOMAIN httpGETResponses.m # {}
    /\ DOMAIN httpPOSTResponses.m # {}
    /\ Handled("GET")
    /\ MapHas(httpGETResponses, KeyOf(result.req))
    /\ result.status = httpGETResponses.m[KeyOf(result.req)].StatusCode
    /\ \E shape \in Shapes : Written(shape).status = 500

\* C17: the handler calls WriteHeader at most once for a request: no path
\* writes a second status, such as a 404 or a 200 after a 500.
C17_OneStatusPerRequest ==
    result.op = "request"
    => \A shape \in Shapes :
          Inbound(shape, result.req.id) = result.req => Written(shape).calls <= 1

\* C18: a POST whose file extraction fails (FormFile returns an error)
\* leaves the four mappings as they are: it is appended to
\* POST-requests-seen under no key and changes no registered response.
C18_FailedPostNotRecorded ==
    /\ [](\A shape \in Shapes :
            (shape.method = "POST" /\ FormFile(shape).err # "")
            => LET out == Dispatch(NewWriter, Inbound(shape, 0))
               IN out.getReqs = httpGETRequests /\ out.postReqs = httpPOSTRequests)
    /\ [][(result'.op = "request" /\ result'.req.method = "POST"
           /\ result'.req.form \in {"none", "nofile", "unopened"})
          => UNCHANGED maps
         ]_vars

\* The two maps agree on every key but this one
OnlyAt(old, new, key) ==
    /\ DOMAIN old.m \ {key} = DOMAIN new.m \ {key}
    /\ \A k \in DOMAIN old.m \ {key} : new.m[k] = old.m[k]

\* C20: each operation touches its own entry only: SetGETResponseBody(k, b)
\* changes GET-responses[k] alone and SetPOSTResponseBody(k, b)
\* POST-responses[k] alone; handling a GET with key k changes
\* GET-requests-seen[k] alone and handling a POST with key k
\* POST-requests-seen[k] alone; GetGETRequests, GetPOSTRequests and URL
\* change nothing.
C20_OwnEntryOnly ==
    [][/\ (result'.op = "SetGETResponseBody")
          => /\ OnlyAt(httpGETResponses, httpGETResponses', result'.key)
             /\ UNCHANGED <<httpPOSTResponses, httpGETRequests, httpPOSTRequests, listener>>
       /\ (result'.op = "SetPOSTResponseBody")
          => /\ OnlyAt(httpPOSTResponses, httpPOSTResponses', result'.key)
             /\ UNCHANGED <<httpGETResponses, httpGETRequests, httpPOSTRequests, listener>>
       /\ (result'.op = "request" /\ result'.req.method = "GET")
          => /\ OnlyAt(httpGETRequests, httpGETRequests', GETKey(result'.req))
             /\ UNCHANGED <<httpGETResponses, httpPOSTResponses, httpPOSTRequests, listener>>
       /\ (result'.op = "request" /\ result'.req.method = "POST"
           /\ result'.req.form \in {"file", "unreadable", "unopened"})
          => /\ OnlyAt(httpPOSTRequests, httpPOSTRequests', KeyOf(result'.req))
             /\ UNCHANGED <<httpGETResponses, httpPOSTResponses, httpGETRequests, listener>>
       /\ (result'.op \in {"GetGETRequests", "GetPOSTRequests", "URL"})
          => UNCHANGED <<maps, listener>>
      ]_vars

\* A GET was recorded under its key while the GET-requests-seen mapping held
\* a list under another key, and that list is as it was.
C20_Witness ==
    /\ Handled("GET")
    /\ result.kind = "response"
    /\ \E k \in DOMAIN httpGETRequests.m :
          /\ k # KeyOf(result.req)
          /\ GetGETRequests(k) = HandledUnder("GET", k)
          /\ GetGETRequests(k) # << >>
    /\ Len(GetGETRequests(KeyOf(result.req))) = 1

\* Every accessor list is as long as the list of the requests with its
\* method and key handled since the last Reset
NoCaptureLost ==
    \A k \in AllKeys :
        /\ Len(GetGETRequests(k)) = Len(HandledUnder("GET", k))
        /\ Len(GetPOSTRequests(k)) = Len(HandledUnder("POST", k))

\* No handler is in flight and the process is alive, on a server whose maps
\* a Reset has made and whose last Reset ran with no handler in flight
AllCompleted == DOMAIN running = {} /\ ~crashed /\ resets /\ resetting = 0 /\ ~raced

\* C14 as stated: handlers run concurrently and no capture is lost: for
\* every interleaving of handlers, once all of them have completed, the
\* length of GetGETRequests(k) (GetPOSTRequests(k)) is the number of GET
\* (POST) requests with key k handled since the last Reset.
C14_NoCaptureLost == AllCompleted => NoCaptureLost

\* C14, amended: when no two handlers of requests with the same method are
\* in flight together, no capture is lost: once all handlers have completed,
\* the length of GetGETRequests(k) (GetPOSTRequests(k)) is the number of GET
\* (POST) requests with key k handled since the last Reset.
C14_NoCaptureLostWithoutOverlap == (AllCompleted /\ ~overlap) => NoCaptureLost

\* Two requests with one key were handled one after the other, as goroutines,
\* and both are in the list.
C14_Witness ==
    /\ AllCompleted
    /\ ~overlap
    /\ \E k \in AllKeys : Len(GetGETRequests(k)) = 2

\* C19 as stated: Reset discards history also when it races with a handler
\* in flight: once Reset has returned, no request appended to a
\* captured-requests mapping before the Reset is returned by GetGETRequests
\* or GetPOSTRequests.
C19_ResetDiscardsHistory ==
    (resets /\ resetting = 0)
    => (CapturedIds(httpGETRequests) \cup CapturedIds(httpPOSTRequests))
                  \cap stale = {}

\* C19, amended: when no handler is in flight while Reset runs, Reset
\* discards history: once Reset has returned, no request appended to a
\* captured-requests mapping before the Reset is returned by GetGETRequests
\* or GetPOSTRequests.
C19_ResetDiscardsHistoryWhenQuiet ==
    (resets /\ resetting = 0 /\ ~raced)
    => (CapturedIds(httpGETRequests) \cup CapturedIds(httpPOSTRequests))
           \cap stale = {}

\* A Reset with no handler in flight discarded a captured request, and a
\* request handled after it is the only one returned.
C19_Witness ==
    /\ ~raced
    /\ resetting = 0
    /\ stale # {}
    /\ DOMAIN running = {}
    /\ result.op = "request"
    /\ result.kind = "response"
    /\ CapturedIds(httpGETRequests) \cup CapturedIds(httpPOSTRequests) = {result.req.id}

====
